---- MODULE Spec2Model ----
(***************************************************************************)
(* A model of chalice.awsclient.TypedAWSClient: the retry loop of          *)
(* create_function, the tag reconciliation of update_function and the      *)
(* permission check of add_permission_for_apigateway_if_needed, each       *)
(* against a remote service whose answers are chosen nondeterministically. *)
(***************************************************************************)
EXTENDS Integers, Sequences, FiniteSets, TLC

LAMBDA_CREATE_ATTEMPTS == 30
DELAY_TIME == 5

VARIABLES
    method,        \* the method of TypedAWSClient called last
    pc,            \* position of the one caller thread inside the current method
    client_cache,  \* self._client_cache: service name -> handle
    created,       \* per service name: session.create_client calls made so far
    client,        \* the handle the last self._client call returned
    log,           \* remote calls and sleeps issued by the current method, in order
    result,        \* what the current method returned or raised
    attempts,      \* the local variable of create_function
    params,        \* the optional arguments of the current update_function call
    return_value,  \* update_function: the response of update_function_code
    remote_tags,   \* _update_function_tags: the tags list_tags answered
    function_tags, \* the remote function's tags
    reconciled,    \* the tags the last completed reconciliation asked for, while
                   \* the remote tags have not been written since
    grant,         \* add_permission_for_apigateway_if_needed: rest_api_id, random_id
    policy,        \* the same: the policy get_function_policy returned
    has_necessary_permissions,  \* the same: its local flag
    function_policy,   \* the remote function's policy: None, or its statements
    initial_policy,    \* the policy the function had when the client was made
    calls_made,        \* add_permission_for_apigateway_if_needed calls so far
    issued,            \* per rest api: add_permission calls issued so far
    add_failed,        \* per rest api: an add_permission call has failed
    completed,         \* per rest api: a call has returned normally
    resource_name,     \* the name or id argument of the current method
    inline_policies,   \* delete_role: the policy names list_role_policies gave
    deleted,           \* delete_role: iterations of the loop completed
    sdk_type,          \* download_sdk: the sdk_type argument
    tmp_extract,       \* download_sdk: the entries of the extracted directory
    dirnames,          \* download_sdk: os.listdir(tmp_extract)
    output_dir,        \* the file system at the output_dir path
    output_before,     \* the same when download_sdk was called
    fs_log,            \* download_sdk: os.rename and shutil.move calls made
    pages,             \* iter_log_events: the pages the paginator has given
    more,              \* the same: the last page came with a nextToken
    events,            \* the same: page['events'] of the current page
    event_index,       \* the same: events of the current page gone through
    yielded,           \* the same: the events handed to the consumer
    threads            \* callers inside _client at the same time: where each
                       \* is, the name it asked for, the handle it made and
                       \* the handle it got

clientVars == <<client_cache, created, client>>
createVars == <<attempts>>
updateVars == <<params, return_value, remote_tags, function_tags, reconciled>>
grantVars ==
    <<grant, policy, has_necessary_permissions, function_policy,
      initial_policy, calls_made, issued, add_failed, completed>>
resourceVars == <<resource_name, inline_policies, deleted>>
sdkVars ==
    <<sdk_type, tmp_extract, dirnames, output_dir, output_before, fs_log>>
lambdaVars == <<createVars, updateVars, grantVars>>
logVars == <<pages, more, events, event_index, yielded>>
threadVars == <<threads>>
otherVars == <<resourceVars, sdkVars, logVars, threadVars>>
vars ==
    <<method, pc, log, result, clientVars, createVars, updateVars, grantVars,
      otherVars>>

------------------------------------------------------------------------------
(* Values *)

NoResult == [kind |-> "none", value |-> "none"]
Returned(v) == [kind |-> "return", value |-> v]
Raised(e) == [kind |-> "raise", value |-> e]

\* A failure raised by a remote call: its class and the position in the log
\* of the call that raised it (two failures of one class are different
\* exception objects).
Failure(cls, at) == [cls |-> cls, at |-> at]

Ok(v) == [ok |-> TRUE, value |-> v]
Fail(cls) == [ok |-> FALSE, value |-> cls]

Call(api, arg, outcome) == [api |-> api, arg |-> arg, outcome |-> outcome]

FunctionArns == {"arn:fn:1", "arn:fn:2"}
\* The ARN of the function update_function is called for.
FunctionArn == "arn:fn:1"

\* An optional argument: None, or the value provided.
None == {}
Some(v) == {v}
Value(opt) == CHOOSE v \in opt : TRUE

\* A dict with string keys: a function on the set of its keys.
EmptyDict == [k \in {} |-> "none"]
Dicts(keys, values) == UNION {[d -> values] : d \in SUBSET keys}

TagMaps == Dicts({"a", "b"}, {"0", "1", "2"})
EnvironmentMaps == {[k \in {"X"} |-> "1"]}
RestApiIds == {"api1", "api2"}
RandomIds == {"r1", "r2"}
NoGrant == [rest_api_id |-> "none", random_id |-> "none"]

NoParams ==
    [environment_variables |-> None, runtime |-> None, tags |-> None,
     timeout |-> None, memory_size |-> None]

CreateFailureClasses ==
    {"InvalidParameterValueException", "ResourceConflictException",
     "AccessDeniedException"}

\* The file system at a path: nothing, or a directory with its entries.
NoDirectory == [exists |-> FALSE, entries |-> {}]
Directory(entries) == [exists |-> TRUE, entries |-> entries]

------------------------------------------------------------------------------
(* _client *)

ServiceNames == {"lambda", "iam", "apigateway", "logs"}

\* A handle: the k-th client the session has made for a service name.
Handle(service_name, k) == [name |-> service_name, handle |-> k]
NoClient == Handle("none", 0)

Threads == {"t1", "t2"}
\* A caller that is not inside _client and has not been given a handle.
NotInClient ==
    [pc |-> "out", service_name |-> "none", made |-> NoClient,
     got |-> NoClient]

NeverCached(cache, service_name) == FALSE
\* service_name in self._client_cache.
Cached(cache, service_name) == \E e \in cache : e.name = service_name

\* The cache after self._client(service_name): a new handle is constructed
\* and stored only when the name is not in the cache.
ClientCache(cache, made, service_name) ==
    IF Cached(cache, service_name)
    THEN cache
    ELSE cache \cup {Handle(service_name, made[service_name] + 1)}

CreatedClients(cache, made, service_name) ==
    IF Cached(cache, service_name)
    THEN made
    ELSE [made EXCEPT ![service_name] = @ + 1]

\* return self._client_cache[service_name], read after the store.
ClientHandle(cache, service_name) ==
    CHOOSE e \in cache : e.name = service_name

UseClient(service_name) ==
    /\ client_cache' = ClientCache(client_cache, created, service_name)
    /\ created' = CreatedClients(client_cache, created, service_name)
    /\ client' =
         ClientHandle(ClientCache(client_cache, created, service_name),
                      service_name)

------------------------------------------------------------------------------
(* create_function *)

RetryEveryFailure(cls) == TRUE
IsTransient(cls) == cls = "InvalidParameterValueException"

CeilingReachedLate(a) == a > LAMBDA_CREATE_ATTEMPTS
CeilingReachedEarly(a) == a >= LAMBDA_CREATE_ATTEMPTS - 1
CeilingReached(a) == a >= LAMBDA_CREATE_ATTEMPTS

NextAttemptsForgotten(a) == a
NextAttempts(a) == a + 1

CreateFunction ==
    /\ pc = "idle"
    /\ method' = "create_function"
    /\ UseClient("lambda")
    /\ attempts' = 0
    /\ log' = <<>>
    /\ result' = NoResult
    /\ pc' = "Attempting"
    /\ UNCHANGED updateVars
    /\ UNCHANGED <<grantVars, otherVars>>

\* client.create_function(**kwargs): the remote answers with a FunctionArn
\* or fails with one of its failure classes.
CreateAttempt ==
    /\ method = "create_function"
    /\ pc = "Attempting"
    /\ \E outcome \in {Ok(a) : a \in FunctionArns}
                      \cup {Fail(c) : c \in CreateFailureClasses} :
         /\ log' = Append(log, Call("create_function", "kwargs", outcome))
         /\ IF outcome.ok
            THEN /\ pc' = "Success"
                 /\ result' = Returned(outcome.value)
            ELSE /\ pc' = IF IsTransient(outcome.value)
                          THEN "RetryableFailure" ELSE "FatalFailure"
                 /\ result' = result
    /\ UNCHANGED <<method, clientVars, attempts, updateVars>>
    /\ UNCHANGED <<grantVars, otherVars>>

\* The except clause: sleep, count the attempt, re-raise at the ceiling.
CreateRetry ==
    /\ method = "create_function"
    /\ pc = "RetryableFailure"
    /\ log' = Append(log, Call("sleep", DELAY_TIME, Ok("none")))
    /\ attempts' = NextAttempts(attempts)
    /\ IF CeilingReached(attempts')
       THEN /\ pc' = "Raised"
            /\ result' = Raised(Failure(log[Len(log)].outcome.value, Len(log)))
       ELSE /\ pc' = "Attempting"
            /\ result' = result
    /\ UNCHANGED <<method, clientVars, updateVars>>
    /\ UNCHANGED <<grantVars, otherVars>>

\* A failure no except clause matches leaves the method.
CreatePropagate ==
    /\ method = "create_function"
    /\ pc = "FatalFailure"
    /\ pc' = "Raised"
    /\ result' = Raised(Failure(log[Len(log)].outcome.value, Len(log)))
    /\ UNCHANGED <<method, clientVars, log, attempts, updateVars>>
    /\ UNCHANGED <<grantVars, otherVars>>

\* The caller has the outcome, the locals of the call are gone, and the
\* caller may call again.
CreateReturn ==
    /\ method = "create_function"
    /\ pc \in {"Success", "Raised"}
    /\ pc' = "idle"
    /\ log' = <<>>
    /\ result' = NoResult
    /\ attempts' = 0
    /\ UNCHANGED <<method, clientVars, updateVars>>
    /\ UNCHANGED <<grantVars, otherVars>>

\* TypedAWSClient(session, sleep): an empty cache, no method called yet.
ClientInit ==
    /\ method = "none"
    /\ pc = "idle"
    /\ client_cache = {}
    /\ created = [n \in ServiceNames |-> 0]
    /\ client = NoClient
    /\ log = <<>>
    /\ result = NoResult
    /\ attempts = 0
    /\ params = NoParams
    /\ return_value = [FunctionArn |-> "none"]
    /\ remote_tags = EmptyDict
    /\ reconciled = None
    /\ grant = NoGrant
    /\ policy = [Statement |-> <<>>]
    /\ has_necessary_permissions = FALSE
    /\ calls_made = 0
    /\ issued = [a \in RestApiIds |-> 0]
    /\ add_failed = [a \in RestApiIds |-> FALSE]
    /\ completed = [a \in RestApiIds |-> FALSE]
    /\ resource_name = "none"
    /\ inline_policies = <<>>
    /\ deleted = 0
    /\ sdk_type = "none"
    /\ tmp_extract = {}
    /\ dirnames = <<>>
    /\ output_before = NoDirectory
    /\ fs_log = <<>>
    /\ pages = <<>>
    /\ more = FALSE
    /\ events = <<>>
    /\ event_index = 0
    /\ yielded = <<>>
    /\ threads = [t \in Threads |-> NotInClient]

CreateInit ==
    /\ ClientInit
    /\ output_dir = NoDirectory
    /\ function_tags = EmptyDict
    /\ function_policy = None
    /\ initial_policy = None

CreateNext ==
    \/ CreateFunction
    \/ CreateAttempt
    \/ CreateRetry
    \/ CreatePropagate
    \/ CreateReturn

CreateSpec == CreateInit /\ [][CreateNext]_vars

\* Inside the method the one thread keeps running: a remote call answers and
\* sleep returns.  Nothing makes the caller call again.
CreateLiveSpec ==
    CreateSpec /\ WF_vars(CreateAttempt \/ CreateRetry \/ CreatePropagate)

------------------------------------------------------------------------------
(* What the log of the current create_function call shows *)

Transient == "InvalidParameterValueException"

Indices(l, api) == {i \in 1..Len(l) : l[i].api = api}

CreateCalls == Indices(log, "create_function")
SleepCalls == Indices(log, "sleep")
TransientCalls ==
    {i \in CreateCalls : ~log[i].outcome.ok /\ log[i].outcome.value = Transient}
FatalCalls ==
    {i \in CreateCalls : ~log[i].outcome.ok /\ log[i].outcome.value # Transient}

RECURSIVE TotalSleep(_)
TotalSleep(l) ==
    IF l = <<>> THEN 0
    ELSE (IF Head(l).api = "sleep" THEN Head(l).arg ELSE 0) + TotalSleep(Tail(l))

LastCreate == CHOOSE i \in CreateCalls : \A j \in CreateCalls : j <= i

RaisedClass(cls) == result.kind = "raise" /\ result.value.cls = cls

------------------------------------------------------------------------------
\* C1: when the remote create call fails with InvalidParameterValueException
\* k < LAMBDA_CREATE_ATTEMPTS times and then succeeds, create_function
\* returns the FunctionArn of the successful response after exactly k+1
\* create calls and exactly k sleeps of DELAY_TIME each (k * DELAY_TIME in
\* total); it does not give up with the transient failure before the ceiling.
C1_RetryThenSuccess ==
    LET k == Cardinality(TransientCalls) IN
    /\ pc = "Success" =>
          /\ k < LAMBDA_CREATE_ATTEMPTS
          /\ log[Len(log)].api = "create_function"
          /\ log[Len(log)].outcome.ok
          /\ result = Returned(log[Len(log)].outcome.value)
          /\ Cardinality(CreateCalls) = k + 1
          /\ Cardinality(SleepCalls) = k
          /\ \A i \in SleepCalls : log[i].arg = DELAY_TIME
          /\ TotalSleep(log) = k * DELAY_TIME
    /\ RaisedClass(Transient) => k >= LAMBDA_CREATE_ATTEMPTS

C1_Witness ==
    /\ pc = "Success"
    /\ Cardinality(TransientCalls) = LAMBDA_CREATE_ATTEMPTS - 1
    /\ Cardinality(SleepCalls) = LAMBDA_CREATE_ATTEMPTS - 1

\* C2: when every attempt fails with InvalidParameterValueException,
\* create_function raises the failure of the last attempt, unchanged, after
\* exactly LAMBDA_CREATE_ATTEMPTS create calls and exactly
\* LAMBDA_CREATE_ATTEMPTS sleeps, and returns no function identifier.
C2_CeilingRaises ==
    /\ RaisedClass(Transient) =>
          /\ Cardinality(CreateCalls) = LAMBDA_CREATE_ATTEMPTS
          /\ TransientCalls = CreateCalls
          /\ Cardinality(SleepCalls) = LAMBDA_CREATE_ATTEMPTS
          /\ result.value = Failure(Transient, LastCreate)
    /\ Cardinality(TransientCalls) >= LAMBDA_CREATE_ATTEMPTS =>
          /\ Cardinality(CreateCalls) = LAMBDA_CREATE_ATTEMPTS
          /\ result.kind # "return"
          /\ pc \in {"RetryableFailure", "Raised", "idle"}
          /\ pc \in {"Raised", "idle"} => RaisedClass(Transient)

C2_Witness ==
    /\ pc = "Raised"
    /\ RaisedClass(Transient)
    /\ Cardinality(SleepCalls) = LAMBDA_CREATE_ATTEMPTS

\* C3: a create call that fails with any class other than
\* InvalidParameterValueException is the last thing the method does: no
\* create call and no sleep follows it, and the method raises that very
\* failure, however many transient retries came before.
C3_FatalPropagates ==
    \A i \in FatalCalls :
        /\ i = Len(log)
        /\ pc \in {"FatalFailure", "Raised", "idle"}
        /\ pc # "FatalFailure" =>
              result = Raised(Failure(log[i].outcome.value, i))

C3_Witness ==
    /\ pc = "Raised"
    /\ FatalCalls # {}
    /\ Cardinality(TransientCalls) = LAMBDA_CREATE_ATTEMPTS - 1

\* C4: create_function follows the state machine Attempting -> {Success,
\* RetryableFailure, FatalFailure}, RetryableFailure -> (delay, Attempting)
\* below the attempt ceiling and -> Raised at it, FatalFailure -> Raised;
\* Success and Raised issue nothing more; and whatever the remote answers,
\* a call reaches Success or Raised within LAMBDA_CREATE_ATTEMPTS attempts.
C4_Step ==
    /\ pc = "Attempting" =>
          /\ pc' \in {"Success", "RetryableFailure", "FatalFailure"}
          /\ Len(log') = Len(log) + 1
          /\ log'[Len(log')].api = "create_function"
    /\ pc = "RetryableFailure" =>
          /\ Len(log') = Len(log) + 1
          /\ log'[Len(log')].api = "sleep"
          /\ pc' = IF Cardinality(TransientCalls) >= LAMBDA_CREATE_ATTEMPTS
                   THEN "Raised" ELSE "Attempting"
    /\ pc = "FatalFailure" => pc' = "Raised" /\ log' = log
    /\ pc \in {"Success", "Raised"} => pc' = "idle" /\ log' = <<>>

C4_StateMachine ==
    /\ [][C4_Step]_vars
    /\ [](Cardinality(CreateCalls) <= LAMBDA_CREATE_ATTEMPTS)
    /\ (pc = "Attempting") ~> (pc \in {"Success", "Raised"})

C4_Witness ==
    /\ pc = "Raised"
    /\ Cardinality(CreateCalls) = LAMBDA_CREATE_ATTEMPTS

------------------------------------------------------------------------------
(* update_function *)

UpdateFailureClasses == {"ResourceNotFoundException", "ServiceException"}

UpdateParams ==
    [environment_variables : {None} \cup {Some(e) : e \in EnvironmentMaps},
     runtime : {None, Some("python3.6")},
     tags : {None} \cup {Some(t) : t \in TagMaps},
     timeout : {None, Some(60)},
     memory_size : {None, Some(128)}]

\* The keys of kwargs once the four "is not None" tests have run.
ConfigKeys(p) ==
    {k \in {"Environment", "Runtime", "Timeout", "MemorySize"} :
        \/ k = "Environment" /\ p.environment_variables # None
        \/ k = "Runtime" /\ p.runtime # None
        \/ k = "Timeout" /\ p.timeout # None
        \/ k = "MemorySize" /\ p.memory_size # None}

\* The request of update_function_configuration: kwargs with FunctionName.
ConfigurationRequest(p) ==
    [k \in ConfigKeys(p) \cup {"FunctionName"} |->
        CASE k = "FunctionName" -> "function_name"
          [] k = "Environment" -> [Variables |-> Value(p.environment_variables)]
          [] k = "Runtime" -> Value(p.runtime)
          [] k = "Timeout" -> Value(p.timeout)
          [] k = "MemorySize" -> Value(p.memory_size)]

\* tag_keys_to_remove = list(set(remote_tags) - set(requested_tags))
RemoveNothing(requested, remote) == {}
TagKeysToRemove(requested, remote) == DOMAIN remote \ DOMAIN requested

\* tags_to_add = {k: v for k, v in requested_tags.items()
\*                if k not in remote_tags or v != remote_tags[k]}
AddMissingOnly(requested, remote) ==
    [k \in {k \in DOMAIN requested : k \notin DOMAIN remote} |-> requested[k]]
AddAllRequested(requested, remote) == requested
TagsToAdd(requested, remote) ==
    [k \in {k \in DOMAIN requested :
               k \notin DOMAIN remote \/ requested[k] # remote[k]}
       |-> requested[k]]

\* What untag_resource and tag_resource do to the tags of the function.
Untagged(tags, keys) == [k \in DOMAIN tags \ keys |-> tags[k]]
Tagged(tags, new) ==
    [k \in DOMAIN tags \cup DOMAIN new |->
        IF k \in DOMAIN new THEN new[k] ELSE tags[k]]

\* Where update_function goes next: each is a test of the code that decides
\* whether the next remote call is made.
AfterUntagListsAgain(requested, remote) == "list_tags"
AfterUntag(requested, remote) ==
    IF DOMAIN TagsToAdd(requested, remote) # {} THEN "tag_resource" ELSE "Returned"
AfterListTagsAlwaysUntags(requested, remote) == "untag_resource"
AfterListTags(requested, remote) ==
    IF TagKeysToRemove(requested, remote) # {}
    THEN "untag_resource" ELSE AfterUntag(requested, remote)
AfterConfiguration(p) == IF p.tags # None THEN "list_tags" ELSE "Returned"
AfterCodeAlwaysConfigures(p) == "update_function_configuration"
AfterCode(p) ==
    IF ConfigKeys(p) # {}
    THEN "update_function_configuration" ELSE AfterConfiguration(p)

IssueIgnoringFailure(api, arg, outcome, next, value) ==
    /\ log' = Append(log, Call(api, arg, outcome))
    /\ pc' = next
    /\ result' = IF next = "Returned" THEN Returned(value) ELSE result

\* The current method issues a remote call and goes to next when the call
\* succeeds; a failure leaves the method as it is raised.
Issue(api, arg, outcome, next, value) ==
    /\ log' = Append(log, Call(api, arg, outcome))
    /\ IF outcome.ok
       THEN /\ pc' = next
            /\ result' = IF next = "Returned" THEN Returned(value) ELSE result
       ELSE /\ pc' = "Raised"
            /\ result' = Raised(Failure(outcome.value, Len(log) + 1))

UpdateFunction ==
    /\ pc = "idle"
    /\ method' = "update_function"
    /\ UseClient("lambda")
    /\ \E p \in UpdateParams : params' = p
    /\ log' = <<>>
    /\ result' = NoResult
    /\ return_value' = [FunctionArn |-> "none"]
    /\ remote_tags' = EmptyDict
    /\ pc' = "update_function_code"
    /\ UNCHANGED <<attempts, function_tags, reconciled>>
    /\ UNCHANGED <<grantVars, otherVars>>

UpdateFunctionCode ==
    /\ method = "update_function"
    /\ pc = "update_function_code"
    /\ LET Answer(outcome) ==
             /\ return_value' = IF outcome.ok THEN outcome.value ELSE return_value
             /\ Issue("update_function_code",
                      [FunctionName |-> "function_name", ZipFile |-> "zip_contents"],
                      outcome, AfterCode(params), outcome.value)
       IN \/ Answer(Ok([FunctionArn |-> FunctionArn]))
          \/ \E c \in UpdateFailureClasses : Answer(Fail(c))
    /\ UNCHANGED <<method, clientVars, attempts, params, remote_tags,
                   function_tags, reconciled>>
    /\ UNCHANGED <<grantVars, otherVars>>

UpdateFunctionConfiguration ==
    /\ method = "update_function"
    /\ pc = "update_function_configuration"
    /\ LET Answer(outcome) ==
             Issue("update_function_configuration", ConfigurationRequest(params),
                   outcome, AfterConfiguration(params), return_value)
       IN \/ Answer(Ok("configuration"))
          \/ \E c \in UpdateFailureClasses : Answer(Fail(c))
    /\ UNCHANGED <<method, clientVars, attempts, updateVars>>
    /\ UNCHANGED <<grantVars, otherVars>>

ListTags ==
    /\ method = "update_function"
    /\ pc = "list_tags"
    /\ UseClient("lambda")
    /\ LET Answer(outcome) ==
             /\ remote_tags' = IF outcome.ok THEN outcome.value ELSE remote_tags
             /\ Issue("list_tags", return_value.FunctionArn, outcome,
                      AfterListTags(Value(params.tags), outcome.value),
                      return_value)
       IN \/ Answer(Ok(function_tags))
          \/ \E c \in UpdateFailureClasses : Answer(Fail(c))
    /\ UNCHANGED <<method, attempts, params, return_value, function_tags,
                   reconciled>>
    /\ UNCHANGED <<grantVars, otherVars>>

UntagResource ==
    /\ method = "update_function"
    /\ pc = "untag_resource"
    /\ UseClient("lambda")
    /\ LET keys == TagKeysToRemove(Value(params.tags), remote_tags)
           Answer(outcome) ==
             /\ Issue("untag_resource",
                      [Resource |-> return_value.FunctionArn, TagKeys |-> keys],
                      outcome, AfterUntag(Value(params.tags), remote_tags),
                      return_value)
             /\ function_tags' = IF outcome.ok THEN Untagged(function_tags, keys)
                                               ELSE function_tags
             /\ reconciled' = IF outcome.ok THEN None ELSE reconciled
       IN \/ Answer(Ok("untagged"))
          \/ \E c \in UpdateFailureClasses : Answer(Fail(c))
    /\ UNCHANGED <<method, attempts, params, return_value, remote_tags>>
    /\ UNCHANGED <<grantVars, otherVars>>

TagResource ==
    /\ method = "update_function"
    /\ pc = "tag_resource"
    /\ UseClient("lambda")
    /\ LET tags == TagsToAdd(Value(params.tags), remote_tags)
           Answer(outcome) ==
             /\ Issue("tag_resource",
                      [Resource |-> return_value.FunctionArn, Tags |-> tags],
                      outcome, "Returned", return_value)
             /\ function_tags' = IF outcome.ok THEN Tagged(function_tags, tags)
                                               ELSE function_tags
             /\ reconciled' = IF outcome.ok THEN None ELSE reconciled
       IN \/ Answer(Ok("tagged"))
          \/ \E c \in UpdateFailureClasses : Answer(Fail(c))
    /\ UNCHANGED <<method, attempts, params, return_value, remote_tags>>
    /\ UNCHANGED <<grantVars, otherVars>>

\* The caller has the outcome, the locals of the call are gone, and the
\* caller may call again.
UpdateReturn ==
    /\ method = "update_function"
    /\ pc \in {"Returned", "Raised"}
    /\ pc' = "idle"
    /\ reconciled' = IF pc = "Returned" /\ params.tags # None
                     THEN params.tags ELSE reconciled
    /\ log' = <<>>
    /\ result' = NoResult
    /\ params' = NoParams
    /\ return_value' = [FunctionArn |-> "none"]
    /\ remote_tags' = EmptyDict
    /\ UNCHANGED <<method, clientVars, attempts, function_tags>>
    /\ UNCHANGED <<grantVars, otherVars>>

\* The function has any tags when the client is constructed.
UpdateInit ==
    /\ ClientInit
    /\ output_dir = NoDirectory
    /\ function_tags \in TagMaps
    /\ function_policy = None
    /\ initial_policy = None

UpdateNext ==
    \/ UpdateFunction
    \/ UpdateFunctionCode
    \/ UpdateFunctionConfiguration
    \/ ListTags
    \/ UntagResource
    \/ TagResource
    \/ UpdateReturn

UpdateSpec == UpdateInit /\ [][UpdateNext]_vars

------------------------------------------------------------------------------
(* What the log of the current update_function call shows *)

Updating == method = "update_function" /\ pc # "idle"

\* list_tags has answered: remote_tags holds the answer.
Listed == \E i \in Indices(log, "list_tags") : log[i].outcome.ok

Desired == Value(params.tags)

ApiSequence(l) == [i \in 1..Len(l) |-> l[i].api]

Provided(p) ==
    \/ p.environment_variables # None
    \/ p.runtime # None
    \/ p.timeout # None
    \/ p.memory_size # None

\* C5: for all requested and remote tags, the reconciliation removes the
\* remote keys that are not requested and upserts the requested entries whose
\* key is missing remotely or has another value there: the removed keys are
\* disjoint from the requested keys, the upserted entries are requested
\* entries, and remote tags with the keys removed and the entries upserted
\* are the requested tags (also on the remote, once the method has returned).
C5_Reconcile ==
    /\ (Updating /\ Listed) =>
          LET remove == TagKeysToRemove(Desired, remote_tags)
              upsert == TagsToAdd(Desired, remote_tags)
          IN /\ remove = {k \in DOMAIN remote_tags : k \notin DOMAIN Desired}
             /\ DOMAIN upsert =
                  {k \in DOMAIN Desired :
                      k \notin DOMAIN remote_tags \/ remote_tags[k] # Desired[k]}
             /\ \A k \in DOMAIN upsert :
                  k \in DOMAIN Desired /\ upsert[k] = Desired[k]
             /\ remove \cap DOMAIN Desired = {}
             /\ Tagged(Untagged(remote_tags, remove), upsert) = Desired
    /\ (Updating /\ pc = "Returned" /\ params.tags # None) =>
          function_tags = Desired

C5_Witness ==
    /\ Updating /\ pc = "Returned" /\ Listed
    /\ TagKeysToRemove(Desired, remote_tags) # {}
    /\ \E k \in DOMAIN TagsToAdd(Desired, remote_tags) : k \in DOMAIN remote_tags
    /\ function_tags = Desired
    /\ function_tags # remote_tags

\* C6: when a reconciliation of the same tags has completed before and
\* nothing has written the remote tags since, update_function finds nothing
\* to remove and nothing to upsert, and issues neither untag_resource nor
\* tag_resource.
C6_Idempotent ==
    (Updating /\ params.tags # None /\ reconciled = params.tags) =>
        /\ Listed =>
              /\ TagKeysToRemove(Desired, remote_tags) = {}
              /\ DOMAIN TagsToAdd(Desired, remote_tags) = {}
        /\ Indices(log, "untag_resource") = {}
        /\ Indices(log, "tag_resource") = {}
        /\ pc \notin {"untag_resource", "tag_resource"}

C6_Witness ==
    /\ Updating /\ pc = "Returned" /\ Listed
    /\ reconciled = params.tags
    /\ DOMAIN Desired = {"a", "b"}

\* The end-to-end scenario: update(env={X:1}, tags={a:1}) against the remote
\* tags {a:0, b:2}.
ScenarioParams ==
    [environment_variables |-> Some([k \in {"X"} |-> "1"]), runtime |-> None,
     tags |-> Some([k \in {"a"} |-> "1"]), timeout |-> None,
     memory_size |-> None]

ScenarioRemoteTags == [k \in {"a", "b"} |-> IF k = "a" THEN "0" ELSE "2"]

InScenario ==
    /\ Updating /\ pc = "Returned"
    /\ params = ScenarioParams
    /\ remote_tags = ScenarioRemoteTags

\* C10: update_function issues exactly one update_function_code call; it
\* issues update_function_configuration only when one of
\* environment_variables, runtime, timeout, memory_size is provided, and,
\* once the code update has succeeded, whenever one is; the request carries
\* the function name and exactly the provided fields.  Tags alone trigger no
\* configuration call.  update(env={X:1}, tags={a:1}) against the remote
\* tags {a:0, b:2} issues the code update, the configuration update with the
\* environment, list_tags, the removal of {b} and the upsert of {a:1}.
C10_UpdateCalls ==
    LET code == Indices(log, "update_function_code")
        config == Indices(log, "update_function_configuration")
    IN
    /\ Updating =>
          /\ code = IF pc = "update_function_code" THEN {} ELSE {1}
          /\ Cardinality(config) <= 1
          /\ config # {} => Provided(params)
          /\ (code # {} /\ log[1].outcome.ok
                /\ pc # "update_function_configuration") =>
                (config # {} <=> Provided(params))
          /\ \A i \in config :
                /\ DOMAIN log[i].arg =
                     {"FunctionName"}
                     \cup (IF params.environment_variables # None
                           THEN {"Environment"} ELSE {})
                     \cup (IF params.runtime # None THEN {"Runtime"} ELSE {})
                     \cup (IF params.timeout # None THEN {"Timeout"} ELSE {})
                     \cup (IF params.memory_size # None
                           THEN {"MemorySize"} ELSE {})
                /\ log[i].arg["FunctionName"] = "function_name"
                /\ params.environment_variables # None =>
                     params.environment_variables =
                         {log[i].arg["Environment"].Variables}
                /\ params.runtime # None =>
                     params.runtime = {log[i].arg["Runtime"]}
                /\ params.timeout # None =>
                     params.timeout = {log[i].arg["Timeout"]}
                /\ params.memory_size # None =>
                     params.memory_size = {log[i].arg["MemorySize"]}
    /\ InScenario =>
          /\ ApiSequence(log) =
               <<"update_function_code", "update_function_configuration",
                 "list_tags", "untag_resource", "tag_resource">>
          /\ DOMAIN log[2].arg = {"FunctionName", "Environment"}
          /\ log[2].arg["Environment"] = [Variables |-> [k \in {"X"} |-> "1"]]
          /\ log[4].arg.TagKeys = {"b"}
          /\ log[5].arg.Tags = [k \in {"a"} |-> "1"]

C10_Witness == InScenario /\ function_tags = [k \in {"a"} |-> "1"]

\* C11: with tags provided, update_function issues untag_resource only when
\* the keys to remove are not empty and tag_resource only when the entries to
\* upsert are not empty, and it does issue each of them then, unless an
\* earlier call of the method has failed; when the remote tags are the
\* requested tags it issues neither; with tags not provided it issues no
\* list_tags, untag_resource or tag_resource call.
C11_TagCalls ==
    LET untag == Indices(log, "untag_resource")
        tag == Indices(log, "tag_resource")
    IN
    Updating =>
        /\ Cardinality(untag) <= 1 /\ Cardinality(tag) <= 1
        /\ (untag # {} \/ tag # {} \/ pc \in {"untag_resource", "tag_resource"})
             => Listed
        /\ Listed =>
             LET remove == TagKeysToRemove(Desired, remote_tags)
                 upsert == TagsToAdd(Desired, remote_tags)
                 untagFailed == \E i \in untag : ~log[i].outcome.ok
             IN /\ untag # {} => remove # {}
                /\ tag # {} => DOMAIN upsert # {}
                /\ pc # "untag_resource" => (untag # {} <=> remove # {})
                /\ (pc \notin {"untag_resource", "tag_resource"} /\ ~untagFailed)
                     => (tag # {} <=> DOMAIN upsert # {})
                /\ \A i \in untag : log[i].arg.TagKeys = remove
                /\ \A i \in tag : log[i].arg.Tags = upsert
                /\ remote_tags = Desired =>
                     /\ untag = {} /\ tag = {}
                     /\ pc = "Returned"
        /\ params.tags = None =>
             /\ Indices(log, "list_tags") = {} /\ untag = {} /\ tag = {}
             /\ pc \notin {"list_tags", "untag_resource", "tag_resource"}

C11_Witness ==
    /\ Updating /\ pc = "Returned" /\ Listed
    /\ TagKeysToRemove(Desired, remote_tags) = {}
    /\ DOMAIN TagsToAdd(Desired, remote_tags) = {"b"}
    /\ ApiSequence(log) = <<"update_function_code", "list_tags", "tag_resource">>

------------------------------------------------------------------------------
(* add_permission_for_apigateway_if_needed *)

MaxCalls == 2
MaxInitStatements == 1

\* A string built by format, as the sequence of its pieces; '' is <<>>.
EmptyStr == <<>>
Str(s) == <<s>>

\* 'arn:aws:execute-api:{region_name}:{account_id}:{rest_api_id}/*'
BuildSourceArnStr(region_name, account_id, rest_api_id) ==
    <<"arn:aws:execute-api:", region_name, ":", account_id, ":", rest_api_id,
      "/*">>

SourceArn(rest_api_id) == BuildSourceArnStr("region_name", "account_id", rest_api_id)

\* d.get(k, default)
Get(d, k, default) == IF k \in DOMAIN d THEN d[k] ELSE default

ArnLike(arn) == [ArnLike |-> [k \in {"AWS:SourceArn"} |-> arn]]

GivesAccessWhateverPrincipal(statement, function_name, source_arn) ==
    IF ~(statement["Action"] = "lambda:InvokeFunction") THEN FALSE
    ELSE IF Get(Get(Get(statement, "Condition", EmptyDict), "ArnLike", EmptyDict),
                "AWS:SourceArn", EmptyStr) # source_arn THEN FALSE
    ELSE TRUE
GivesApigatewayAccess(statement, function_name, source_arn) ==
    IF ~(statement["Action"] = "lambda:InvokeFunction") THEN FALSE
    ELSE IF Get(Get(Get(statement, "Condition", EmptyDict), "ArnLike", EmptyDict),
                "AWS:SourceArn", EmptyStr) # source_arn THEN FALSE
    ELSE IF Get(Get(statement, "Principal", EmptyDict), "Service", EmptyStr)
              # Str("apigateway.amazonaws.com") THEN FALSE
    ELSE TRUE

\* The for loop over policy.get('Statement', []), left at the first statement
\* that gives access.
ChecksFirstStatementOnly(statements, function_name, source_arn) ==
    /\ statements # <<>>
    /\ GivesApigatewayAccess(Head(statements), function_name, source_arn)
RECURSIVE HasNecessaryPermissions(_, _, _)
HasNecessaryPermissions(statements, function_name, source_arn) ==
    IF statements = <<>> THEN FALSE
    ELSE IF GivesApigatewayAccess(Head(statements), function_name, source_arn)
         THEN TRUE
         ELSE HasNecessaryPermissions(Tail(statements), function_name, source_arn)

\* except client.exceptions.ResourceNotFoundException: pass
CatchesEveryFailure(cls) == TRUE
IsResourceNotFound(cls) == cls = "ResourceNotFoundException"

\* json.loads of the 'Policy' text of a get_policy response.
JsonText(document) == [json |-> document]
JsonLoads(text) == text.json

\* The request of add_permission_for_apigateway.
AddPermissionRequest(function_name, rest_api_id, random_id) ==
    [Action |-> "lambda:InvokeFunction",
     FunctionName |-> function_name,
     StatementId |-> random_id,
     Principal |-> Str("apigateway.amazonaws.com"),
     SourceArn |-> SourceArn(rest_api_id)]

\* The statement the policy holds after add_permission(request).
RecordedStatement(request) ==
    [Action |-> request.Action,
     Condition |-> ArnLike(request.SourceArn),
     Effect |-> "Allow",
     Principal |-> [Service |-> request.Principal],
     Resource |-> FunctionArn,
     Sid |-> request.StatementId]

PolicyWith(pol, statement) ==
    IF pol = None
    THEN Some([Id |-> "default", Statement |-> <<statement>>])
    ELSE {[Id |-> d.Id, Statement |-> Append(d.Statement, statement)] : d \in pol}

\* The statements a function's policy may hold before the client is made.
Merge(d, e) ==
    [k \in DOMAIN d \cup DOMAIN e |-> IF k \in DOMAIN e THEN e[k] ELSE d[k]]

InitialStatements ==
    {Merge(Merge([Action |-> a, Effect |-> "Allow", Resource |-> r, Sid |-> "sid0"],
                 c), pr) :
        a \in {"lambda:InvokeFunction", "lambda:GetFunction"},
        r \in FunctionArns,
        c \in {EmptyDict}
               \cup {[k \in {"Condition"} |-> ArnLike(arn)] :
                        arn \in {SourceArn("api1"), SourceArn("*")}},
        pr \in {EmptyDict,
                [k \in {"Principal"} |->
                    [Service |-> Str("apigateway.amazonaws.com")]],
                [k \in {"Principal"} |-> [AWS |-> Str("account_id")]]}}

SeqsUpTo(S, n) == UNION {[1..m -> S] : m \in 0..n}

InitialPolicies ==
    {None}
    \cup {Some([Id |-> "default", Statement |-> st]) :
            st \in SeqsUpTo(InitialStatements, MaxInitStatements)}

GetPolicyFailureClasses == {"ServiceException"}
AddPermissionFailureClasses == {"ResourceNotFoundException", "ServiceException"}

AddPermissionForApigatewayIfNeeded ==
    /\ pc = "idle"
    /\ calls_made < MaxCalls
    /\ calls_made' = calls_made + 1
    /\ method' = "add_permission_for_apigateway_if_needed"
    /\ \E a \in RestApiIds, r \in RandomIds :
         grant' = [rest_api_id |-> a, random_id |-> r]
    /\ has_necessary_permissions' = FALSE
    /\ UseClient("lambda")
    /\ policy' = [Statement |-> <<>>]
    /\ log' = <<>>
    /\ result' = NoResult
    /\ pc' = "get_policy"
    /\ UNCHANGED <<createVars, updateVars, function_policy, initial_policy,
                   issued, add_failed, completed, otherVars>>

\* policy = self.get_function_policy(function_name), the except clause and
\* the else clause with the loop over the statements.
GetFunctionPolicy ==
    /\ method = "add_permission_for_apigateway_if_needed"
    /\ pc = "get_policy"
    /\ UseClient("lambda")
    /\ LET Answer(outcome) ==
             /\ log' = Append(log, Call("get_policy", "function_name", outcome))
             /\ IF outcome.ok
                THEN /\ policy' = JsonLoads(outcome.value.Policy)
                     /\ has_necessary_permissions' =
                          HasNecessaryPermissions(
                              Get(policy', "Statement", <<>>), "function_name",
                              SourceArn(grant.rest_api_id))
                     /\ pc' = IF has_necessary_permissions'
                              THEN "Returned" ELSE "add_permission"
                     /\ result' = IF has_necessary_permissions'
                                  THEN Returned("None") ELSE result
                ELSE /\ UNCHANGED <<policy, has_necessary_permissions>>
                     /\ IF IsResourceNotFound(outcome.value)
                        THEN pc' = "add_permission" /\ result' = result
                        ELSE /\ pc' = "Raised"
                             /\ result' = Raised(Failure(outcome.value, 1))
       IN \/ \E d \in function_policy : Answer(Ok([Policy |-> JsonText(d)]))
          \/ function_policy = None /\ Answer(Fail("ResourceNotFoundException"))
          \/ \E c \in GetPolicyFailureClasses : Answer(Fail(c))
    /\ UNCHANGED <<method, createVars, updateVars, grant, function_policy,
                   initial_policy, calls_made, issued, add_failed, completed,
                   otherVars>>

\* self.add_permission_for_apigateway(...): client.add_permission.
AddPermissionForApigateway ==
    /\ method = "add_permission_for_apigateway_if_needed"
    /\ pc = "add_permission"
    /\ UseClient("lambda")
    /\ LET request == AddPermissionRequest("function_name", grant.rest_api_id,
                                           grant.random_id)
           Answer(outcome) ==
             /\ Issue("add_permission", request, outcome, "Returned", "None")
             /\ function_policy' =
                  IF outcome.ok
                  THEN PolicyWith(function_policy, RecordedStatement(request))
                  ELSE function_policy
             /\ add_failed' =
                  [add_failed EXCEPT ![grant.rest_api_id] = @ \/ ~outcome.ok]
       IN \/ Answer(Ok("added"))
          \/ \E c \in AddPermissionFailureClasses : Answer(Fail(c))
    /\ issued' = [issued EXCEPT ![grant.rest_api_id] = @ + 1]
    /\ UNCHANGED <<method, createVars, updateVars, grant, policy,
                   has_necessary_permissions, initial_policy, calls_made,
                   completed, otherVars>>

\* The caller has the outcome, the locals of the call are gone, and the
\* caller may call again.
GrantReturn ==
    /\ method = "add_permission_for_apigateway_if_needed"
    /\ pc \in {"Returned", "Raised"}
    /\ pc' = "idle"
    /\ completed' =
         [completed EXCEPT ![grant.rest_api_id] = @ \/ pc = "Returned"]
    /\ log' = <<>>
    /\ result' = NoResult
    /\ grant' = NoGrant
    /\ policy' = [Statement |-> <<>>]
    /\ has_necessary_permissions' = FALSE
    /\ UNCHANGED <<method, clientVars, createVars, updateVars, function_policy,
                   initial_policy, calls_made, issued, add_failed, otherVars>>

\* The function has any policy, or none, when the client is constructed.
GrantInit ==
    /\ ClientInit
    /\ output_dir = NoDirectory
    /\ function_tags = EmptyDict
    /\ function_policy \in InitialPolicies
    /\ initial_policy = function_policy

GrantNext ==
    \/ AddPermissionForApigatewayIfNeeded
    \/ GetFunctionPolicy
    \/ AddPermissionForApigateway
    \/ GrantReturn

GrantSpec == GrantInit /\ [][GrantNext]_vars

------------------------------------------------------------------------------
(* What the current add_permission_for_apigateway_if_needed call shows *)

Granting == method = "add_permission_for_apigateway_if_needed" /\ pc # "idle"

\* The statement grants API gateway the right to invoke, for this source ARN.
Grants(statement, arn) ==
    /\ statement["Action"] = "lambda:InvokeFunction"
    /\ "Condition" \in DOMAIN statement
    /\ statement["Condition"].ArnLike["AWS:SourceArn"] = arn
    /\ "Principal" \in DOMAIN statement
    /\ "Service" \in DOMAIN statement["Principal"]
    /\ statement["Principal"].Service = Str("apigateway.amazonaws.com")

GrantingStatements(pol, arn) ==
    IF pol = None THEN {}
    ELSE LET st == Value(pol).Statement
         IN {i \in 1..Len(st) : Grants(st[i], arn)}

\* C7: repeated add_permission_for_apigateway_if_needed calls for the same
\* function and rest api, against a remote that records every granted
\* statement and has no other writer: no add_permission is ever issued when
\* a granting statement existed initially; when none existed and no
\* add_permission failed, at most one is issued, and exactly one once a call
\* has returned; the policy never gains a second statement granting the
\* same source ARN.
C7_GrantOnce ==
    \A a \in RestApiIds :
        LET initially ==
                Cardinality(GrantingStatements(initial_policy, SourceArn(a)))
            returned ==
                completed[a]
                \/ (Granting /\ pc = "Returned" /\ grant.rest_api_id = a)
        IN /\ initially > 0 => issued[a] = 0
           /\ (initially = 0 /\ ~add_failed[a]) => issued[a] <= 1
           /\ (initially = 0 /\ ~add_failed[a] /\ returned) => issued[a] = 1
           /\ Cardinality(GrantingStatements(function_policy, SourceArn(a)))
                <= IF initially = 0 THEN 1 ELSE initially

C7_Witness ==
    /\ Granting /\ pc = "Returned"
    /\ grant.rest_api_id = "api2"
    /\ completed["api2"]
    /\ issued["api2"] = 1
    /\ Len(log) = 1
    /\ initial_policy # None

\* C8: the check reports a grant exactly when the fetched policy holds, at
\* any position and whatever its Sid and Resource, a statement with the
\* action lambda:InvokeFunction, a source-ARN condition equal to the expected
\* source ARN and the principal service apigateway.amazonaws.com; an empty
\* statement list, and a statement for another source ARN, report no grant.
C8_Check ==
    (Granting /\ log # <<>> /\ log[1].outcome.ok) =>
        /\ has_necessary_permissions =
             (\E i \in 1..Len(policy.Statement) :
                 Grants(policy.Statement[i], SourceArn(grant.rest_api_id)))
        /\ Len(log) = 1 => function_policy = Some(policy)
        /\ policy.Statement = <<>> => ~has_necessary_permissions
        /\ (\A i \in 1..Len(policy.Statement) :
               Get(Get(Get(policy.Statement[i], "Condition", EmptyDict),
                       "ArnLike", EmptyDict), "AWS:SourceArn", EmptyStr)
                 # SourceArn(grant.rest_api_id))
             => ~has_necessary_permissions

C8_Witness ==
    /\ Granting /\ log # <<>> /\ log[1].outcome.ok
    /\ has_necessary_permissions
    /\ Len(policy.Statement) = 2
    /\ ~Grants(policy.Statement[1], SourceArn(grant.rest_api_id))
    /\ policy.Statement[1]["Action"] = "lambda:InvokeFunction"
    /\ policy.Statement[2]["Sid"] # grant.random_id

\* C9: a get_policy that fails with ResourceNotFoundException is not
\* propagated: the method goes on as with no grant and issues exactly one
\* add_permission call; a get_policy that fails with any other class raises
\* that failure and no add_permission call is issued.
C9_NotFound ==
    (Granting /\ log # <<>> /\ ~log[1].outcome.ok) =>
        IF log[1].outcome.value = "ResourceNotFoundException"
        THEN /\ ~has_necessary_permissions
             /\ pc \in {"add_permission", "Returned", "Raised"}
             /\ pc = "add_permission" => Len(log) = 1
             /\ pc # "add_permission" =>
                   /\ Indices(log, "add_permission") = {2}
                   /\ Len(log) = 2
             /\ result.kind = "raise" => result.value.at = 2
             /\ (pc = "Returned") = (Len(log) = 2 /\ log[2].outcome.ok)
        ELSE /\ pc = "Raised"
             /\ result = Raised(Failure(log[1].outcome.value, 1))
             /\ Len(log) = 1

C9_Witness ==
    /\ Granting /\ pc = "Returned"
    /\ ~log[1].outcome.ok
    /\ log[1].outcome.value = "ResourceNotFoundException"
    /\ function_policy # None

------------------------------------------------------------------------------
(* delete_role, delete_role_policy *)

MaxPolicies == 2

RoleNames == {"role1", "role2"}
PolicyNames == {"p1", "p2", "p3"}

\* What list_role_policies can answer as PolicyNames: the inline policies of
\* one role have different names.
PolicyLists ==
    {l \in SeqsUpTo(PolicyNames, MaxPolicies) :
        \A i, j \in 1..Len(l) : l[i] = l[j] => i = j}

IamFailureClasses ==
    {"NoSuchEntityException", "DeleteConflictException", "ServiceFailureException"}

AfterPoliciesSkipsLast(done, policies) ==
    IF done + 1 < Len(policies) THEN "delete_role_policy" ELSE "delete_role"

\* for policy_name in inline_policies: ...; then client.delete_role.
AfterPolicies(done, policies) ==
    IF done < Len(policies) THEN "delete_role_policy" ELSE "delete_role"

\* delete_role(name): client = self._client('iam').
DeleteRole ==
    /\ pc = "idle"
    /\ method' = "delete_role"
    /\ \E n \in RoleNames : resource_name' = n
    /\ UseClient("iam")
    /\ inline_policies' = <<>>
    /\ deleted' = 0
    /\ log' = <<>>
    /\ result' = NoResult
    /\ pc' = "list_role_policies"
    /\ UNCHANGED <<lambdaVars, threadVars, logVars, sdkVars>>

\* inline_policies = client.list_role_policies(RoleName=name)['PolicyNames'].
ListRolePolicies ==
    /\ method = "delete_role"
    /\ pc = "list_role_policies"
    /\ LET request == [RoleName |-> resource_name]
           Answer(outcome, names) ==
             /\ Issue("list_role_policies", request, outcome,
                      AfterPolicies(0, names), "None")
             /\ inline_policies' = names
       IN \/ \E l \in PolicyLists : Answer(Ok([PolicyNames |-> l]), l)
          \/ \E c \in IamFailureClasses : Answer(Fail(c), inline_policies)
    /\ UNCHANGED <<method, clientVars, lambdaVars, threadVars, logVars, sdkVars,
                   resource_name, deleted>>

\* One iteration of the loop: self.delete_role_policy(name, policy_name),
\* which asks self._client('iam') again.
DeleteRolePolicy ==
    /\ method = "delete_role"
    /\ pc = "delete_role_policy"
    /\ UseClient("iam")
    /\ LET request == [RoleName |-> resource_name,
                       PolicyName |-> inline_policies[deleted + 1]]
           Answer(outcome) ==
             /\ Issue("delete_role_policy", request, outcome,
                      AfterPolicies(deleted + 1, inline_policies), "None")
             /\ deleted' = IF outcome.ok THEN deleted + 1 ELSE deleted
       IN \/ Answer(Ok("deleted"))
          \/ \E c \in IamFailureClasses : Answer(Fail(c))
    /\ UNCHANGED <<method, lambdaVars, threadVars, logVars, sdkVars, resource_name,
                   inline_policies>>

\* client.delete_role(RoleName=name).
DeleteRoleOfName ==
    /\ method = "delete_role"
    /\ pc = "delete_role"
    /\ LET request == [RoleName |-> resource_name]
           Answer(outcome) ==
             Issue("delete_role", request, outcome, "Returned", "None")
       IN \/ Answer(Ok("deleted"))
          \/ \E c \in IamFailureClasses : Answer(Fail(c))
    /\ UNCHANGED <<method, clientVars, lambdaVars, threadVars, logVars, sdkVars,
                   resourceVars>>

\* The caller has the outcome, the locals of the call are gone, and the
\* caller may call again.
DeleteRoleReturn ==
    /\ method = "delete_role"
    /\ pc \in {"Returned", "Raised"}
    /\ pc' = "idle"
    /\ log' = <<>>
    /\ result' = NoResult
    /\ resource_name' = "none"
    /\ inline_policies' = <<>>
    /\ deleted' = 0
    /\ UNCHANGED <<method, clientVars, lambdaVars, threadVars, logVars, sdkVars>>

IdentityInit ==
    /\ ClientInit
    /\ output_dir = NoDirectory
    /\ function_tags = EmptyDict
    /\ function_policy = None
    /\ initial_policy = None

IdentityNext ==
    \/ DeleteRole
    \/ ListRolePolicies
    \/ DeleteRolePolicy
    \/ DeleteRoleOfName
    \/ DeleteRoleReturn

IdentitySpec == IdentityInit /\ [][IdentityNext]_vars

DeletingRole == method = "delete_role" /\ pc # "idle"

PolicyDeletions == Indices(log, "delete_role_policy")
RoleDeletions == Indices(log, "delete_role")

\* The list call of the current delete_role call has answered.
PoliciesListed ==
    /\ Len(log) >= 1
    /\ log[1].api = "list_role_policies"
    /\ log[1].outcome.ok

------------------------------------------------------------------------------
\* C12: delete_role issues its delete_role_policy calls for the listed policy
\* names in the order of the list, one call per name, none skipped and none
\* repeated; it issues at most one delete_role call, and that call comes after
\* a successful delete_role_policy call for every listed name, so no
\* delete_role call precedes a delete_role_policy call; a call that returns
\* has issued all of them.
C12_DeleteRoleOrder ==
    DeletingRole =>
        /\ \A i \in 1..Len(log) :
             log[i].api = "list_role_policies" <=> i = 1
        /\ PolicyDeletions # {} => PoliciesListed
        /\ \A i \in PolicyDeletions :
             /\ i - 1 \in 1..Len(inline_policies)
             /\ log[i].arg =
                  [RoleName |-> resource_name,
                   PolicyName |-> inline_policies[i - 1]]
             /\ \A j \in 2..(i - 1) : j \in PolicyDeletions
        /\ Cardinality(RoleDeletions) <= 1
        /\ \A d \in RoleDeletions :
             /\ PoliciesListed
             /\ d = Len(inline_policies) + 2
             /\ \A i \in 2..(d - 1) :
                  i \in PolicyDeletions /\ log[i].outcome.ok
             /\ \A i \in PolicyDeletions : i < d
             /\ log[d].arg = [RoleName |-> resource_name]
        /\ pc = "Returned" =>
             /\ Cardinality(RoleDeletions) = 1
             /\ Cardinality(PolicyDeletions) = Len(inline_policies)

C12_Witness ==
    /\ DeletingRole /\ pc = "Returned"
    /\ Len(inline_policies) = 2
    /\ ApiSequence(log) =
         <<"list_role_policies", "delete_role_policy", "delete_role_policy",
           "delete_role">>

\* C20: when list_role_policies or a delete_role_policy call fails inside
\* delete_role, the method raises that failure, issues no call after it and
\* no delete_role call; a delete_role call is in the log only when the list
\* call and a delete_role_policy call for every listed name have succeeded.
C20_NoRoleDeletionAfterFailure ==
    DeletingRole =>
        /\ \A i \in 1..Len(log) :
             (log[i].api \in {"list_role_policies", "delete_role_policy"}
                /\ ~log[i].outcome.ok)
             => /\ i = Len(log)
                /\ pc = "Raised"
                /\ result = Raised(Failure(log[i].outcome.value, i))
                /\ RoleDeletions = {}
        /\ RoleDeletions # {} =>
             /\ PoliciesListed
             /\ \A k \in 1..Len(inline_policies) :
                  \E i \in PolicyDeletions :
                      /\ log[i].arg.PolicyName = inline_policies[k]
                      /\ log[i].outcome.ok

C20_Witness ==
    /\ DeletingRole /\ pc = "Raised"
    /\ Len(inline_policies) = 2
    /\ Len(log) = 3
    /\ log[2].api = "delete_role_policy" /\ log[2].outcome.ok
    /\ log[3].api = "delete_role_policy" /\ ~log[3].outcome.ok
    /\ RoleDeletions = {}

------------------------------------------------------------------------------
(* lambda_function_exists, rest_api_exists, delete_function, delete_rest_api,
   get_role_arn_for_name *)

FunctionNames == {"function1", "function2"}

LambdaFailureClasses ==
    {"ResourceNotFoundException", "InvalidParameterValueException",
     "ServiceException"}
ApigatewayFailureClasses ==
    {"NotFoundException", "UnauthorizedException", "TooManyRequestsException"}

\* An exception the method constructs itself, with its argument.
LocalError(cls, arg) == [cls |-> cls, at |-> 0, arg |-> arg]

ExistsResultCatchingAll(outcome, not_found) ==
    IF outcome.ok THEN Returned(TRUE) ELSE Returned(FALSE)

\* try: client.get_...; return True; except <not found>: return False.
ExistsResult(outcome, not_found) ==
    IF outcome.ok
    THEN Returned(TRUE)
    ELSE IF outcome.value = not_found
         THEN Returned(FALSE)
         ELSE Raised(Failure(outcome.value, 1))

DeleteResultTranslatingAll(outcome, not_found, name) ==
    IF outcome.ok
    THEN Returned("None")
    ELSE Raised(LocalError("ResourceDoesNotExistError", name))

\* try: client.delete_...; except <not found>:
\*     raise ResourceDoesNotExistError(name).
DeleteResult(outcome, not_found, name) ==
    IF outcome.ok
    THEN Returned("None")
    ELSE IF outcome.value = not_found
         THEN Raised(LocalError("ResourceDoesNotExistError", name))
         ELSE Raised(Failure(outcome.value, 1))

\* try: role = client.get_role(RoleName=name); except NoSuchEntityException:
\*     raise ValueError(...); return role['Role']['Arn'].
GetRoleArnResult(outcome, name) ==
    IF outcome.ok
    THEN Returned(outcome.value.Role.Arn)
    ELSE IF outcome.value = "NoSuchEntityException"
         THEN Raised(LocalError("ValueError", name))
         ELSE Raised(Failure(outcome.value, 1))

PcOf(r) == IF r.kind = "return" THEN "Returned" ELSE "Raised"

\* A method that asks for the client of one service and issues one remote
\* call: the call is logged and the method returns or raises res.
OneCall(m, service_name, name, api, arg, outcome, res) ==
    /\ pc = "idle"
    /\ method' = m
    /\ resource_name' = name
    /\ UseClient(service_name)
    /\ log' = <<Call(api, arg, outcome)>>
    /\ result' = res
    /\ pc' = PcOf(res)
    /\ UNCHANGED <<lambdaVars, threadVars, logVars, sdkVars, inline_policies, deleted>>

LambdaFunctionExists ==
    \E name \in FunctionNames :
        LET Answer(outcome) ==
              OneCall("lambda_function_exists", "lambda", name, "get_function",
                      [FunctionName |-> name], outcome,
                      ExistsResult(outcome, "ResourceNotFoundException"))
        IN \/ Answer(Ok("function"))
           \/ \E c \in LambdaFailureClasses : Answer(Fail(c))

RestApiExists ==
    \E rest_api_id \in RestApiIds :
        LET Answer(outcome) ==
              OneCall("rest_api_exists", "apigateway", rest_api_id,
                      "get_rest_api", [restApiId |-> rest_api_id], outcome,
                      ExistsResult(outcome, "NotFoundException"))
        IN \/ Answer(Ok("rest_api"))
           \/ \E c \in ApigatewayFailureClasses : Answer(Fail(c))

DeleteFunction ==
    \E function_name \in FunctionNames :
        LET Answer(outcome) ==
              OneCall("delete_function", "lambda", function_name,
                      "delete_function", [FunctionName |-> function_name],
                      outcome,
                      DeleteResult(outcome, "ResourceNotFoundException",
                                   function_name))
        IN \/ Answer(Ok("deleted"))
           \/ \E c \in LambdaFailureClasses : Answer(Fail(c))

DeleteRestApi ==
    \E rest_api_id \in RestApiIds :
        LET Answer(outcome) ==
              OneCall("delete_rest_api", "apigateway", rest_api_id,
                      "delete_rest_api", [restApiId |-> rest_api_id], outcome,
                      DeleteResult(outcome, "NotFoundException", rest_api_id))
        IN \/ Answer(Ok("deleted"))
           \/ \E c \in ApigatewayFailureClasses : Answer(Fail(c))

GetRoleArnForName ==
    \E name \in RoleNames :
        LET Answer(outcome) ==
              OneCall("get_role_arn_for_name", "iam", name, "get_role",
                      [RoleName |-> name], outcome,
                      GetRoleArnResult(outcome, name))
        IN \/ Answer(Ok([Role |-> [Arn |-> <<"arn:role", name>>]]))
           \/ \E c \in IamFailureClasses : Answer(Fail(c))

OneCallMethods ==
    {"lambda_function_exists", "rest_api_exists", "delete_function",
     "delete_rest_api", "get_role_arn_for_name"}

\* The caller has the outcome, the locals of the call are gone, and the
\* caller may call again.
OneCallReturn ==
    /\ method \in OneCallMethods
    /\ pc \in {"Returned", "Raised"}
    /\ pc' = "idle"
    /\ log' = <<>>
    /\ result' = NoResult
    /\ resource_name' = "none"
    /\ UNCHANGED <<method, clientVars, lambdaVars, threadVars, logVars, sdkVars,
                   inline_policies, deleted>>

ResourceNext ==
    \/ LambdaFunctionExists
    \/ RestApiExists
    \/ DeleteFunction
    \/ DeleteRestApi
    \/ GetRoleArnForName
    \/ OneCallReturn

ResourceSpec == IdentityInit /\ [][ResourceNext]_vars

Deleting == method \in {"delete_function", "delete_rest_api"} /\ pc # "idle"
Checking ==
    method \in {"lambda_function_exists", "rest_api_exists"} /\ pc # "idle"

\* The class by which the service of the method reports a missing resource.
NotFoundClass ==
    IF method \in {"delete_function", "lambda_function_exists"}
    THEN "ResourceNotFoundException" ELSE "NotFoundException"

------------------------------------------------------------------------------
\* C13: delete_function and delete_rest_api issue their one delete call; when
\* it fails with the service's not-found class the method raises a
\* ResourceDoesNotExistError made with the function name or rest api id, which
\* is no failure of a remote call; when it fails with another class the method
\* raises that very failure; when it succeeds the method returns and raises
\* nothing.
C13_DeleteTranslation ==
    Deleting =>
        /\ Len(log) = 1
        /\ log[1].api = method
        /\ LET outcome == log[1].outcome
           IN IF outcome.ok
              THEN pc = "Returned" /\ result.kind = "return"
              ELSE /\ pc = "Raised"
                   /\ result.kind = "raise"
                   /\ IF outcome.value = NotFoundClass
                      THEN /\ result.value =
                                LocalError("ResourceDoesNotExistError",
                                           resource_name)
                           /\ result.value.cls
                                \notin (LambdaFailureClasses
                                        \cup ApigatewayFailureClasses)
                           /\ result.value.at \notin 1..Len(log)
                           /\ result.value.arg \in FunctionNames \cup RestApiIds
                      ELSE result.value = Failure(outcome.value, 1)

C13_Witness ==
    /\ Deleting /\ method = "delete_rest_api" /\ pc = "Raised"
    /\ log[1].outcome = Fail("NotFoundException")
    /\ result.value.cls = "ResourceDoesNotExistError"
    /\ result.value.arg = "api1"

\* C14: lambda_function_exists and rest_api_exists issue exactly one remote
\* call, the lookup get_function or get_rest_api for the given name; they
\* return True exactly when it succeeds, return False and raise nothing when
\* it fails with the service's not-found class, and raise that very failure
\* when it fails with another class.
C14_Exists ==
    Checking =>
        /\ Len(log) = 1
        /\ log[1].api =
             (IF method = "lambda_function_exists"
              THEN "get_function" ELSE "get_rest_api")
        /\ log[1].arg \in
             {[FunctionName |-> resource_name], [restApiId |-> resource_name]}
        /\ LET outcome == log[1].outcome
           IN /\ (result.kind = "return" /\ result.value) <=> outcome.ok
              /\ (~outcome.ok /\ outcome.value = NotFoundClass) =>
                   /\ pc = "Returned"
                   /\ result.kind = "return" /\ ~result.value
              /\ (~outcome.ok /\ outcome.value # NotFoundClass) =>
                   /\ pc = "Raised"
                   /\ result = Raised(Failure(outcome.value, 1))

C14_Witness ==
    /\ Checking /\ method = "lambda_function_exists" /\ pc = "Returned"
    /\ log[1].outcome = Fail("ResourceNotFoundException")
    /\ result.kind = "return" /\ result.value = FALSE

------------------------------------------------------------------------------
(* download_sdk, get_sdk_download_stream *)

MaxEntries == 2

SdkTypes == {"javascript", "ruby"}

\* Names of files and directories, as the pieces they are made of.
Name(s) == <<s>>
\* 'chalice-%s-sdk' % sdk_type.
FinalDirname(type) == <<"chalice-", type, "-sdk">>

EntryNames == {Name("apiGateway-js-sdk"), Name("README.md"), Name("lib")}
Entry(name, isdir) == [name |-> name, isdir |-> isdir]
NamesOf(entries) == {e.name : e \in entries}

\* What an archive can extract to: top-level entries with different names.
Archives ==
    {a \in SUBSET {Entry(n, d) : n \in EntryNames, d \in BOOLEAN} :
        /\ Cardinality(a) <= MaxEntries
        /\ Cardinality(NamesOf(a)) = Cardinality(a)}

\* os.listdir: every name once, in arbitrary order.
Listings(entries) ==
    {l \in [1..Cardinality(entries) -> NamesOf(entries)] :
        \A i, j \in 1..Cardinality(entries) : l[i] = l[j] => i = j}

SomeEntry(names) == Len(names) >= 1
\* len(dirnames) == 1.
SingleEntry(names) == Len(names) = 1

\* os.path.isdir(os.path.join(tmp_extract, name)).
IsDir(entries, name) == \E e \in entries : e.name = name /\ e.isdir

\* os.rename inside one directory.
Renamed(entries, from, to) ==
    {IF e.name = from THEN Entry(to, e.isdir) ELSE e : e \in entries}

\* What is inside the directory of a generated SDK.
SdkFiles == {Name("apigClient.js")}

\* download_sdk(rest_api_id, output_dir, sdk_type=...):
\* zip_stream = self.get_sdk_download_stream(...), which is
\* self._client('apigateway').get_sdk(...)['body'].
DownloadSdk ==
    /\ pc = "idle"
    /\ method' = "download_sdk"
    /\ \E a \in RestApiIds : resource_name' = a
    /\ \E t \in SdkTypes : sdk_type' = t
    /\ output_before' = output_dir
    /\ UseClient("apigateway")
    /\ LET request == [restApiId |-> resource_name', sdkType |-> sdk_type']
           Answer(outcome) ==
             Issue("get_sdk", request, outcome, "extract", "None")
       IN \/ \E z \in Archives : Answer(Ok([body |-> z]))
          \/ \E c \in ApigatewayFailureClasses : Answer(Fail(c))
    /\ UNCHANGED <<lambdaVars, threadVars, logVars, inline_policies, deleted, tmp_extract,
                   dirnames, output_dir, fs_log>>

\* The archive is written to a new temporary directory and extracted;
\* dirnames = os.listdir(tmp_extract).
ExtractAll ==
    /\ method = "download_sdk"
    /\ pc = "extract"
    /\ tmp_extract' = log[1].outcome.value.body
    /\ \E l \in Listings(tmp_extract') : dirnames' = l
    /\ pc' = "listed"
    /\ UNCHANGED <<method, log, result, clientVars, lambdaVars, threadVars, logVars, resourceVars,
                   sdk_type, output_dir, output_before, fs_log>>

\* if len(dirnames) == 1: ... if os.path.isdir(full_dirname): os.rename(...);
\* otherwise raise RuntimeError(...).
RenameOrRaise ==
    /\ method = "download_sdk"
    /\ pc = "listed"
    /\ IF SingleEntry(dirnames) /\ IsDir(tmp_extract, dirnames[1])
       THEN /\ fs_log' =
                 Append(fs_log,
                        [op |-> "rename", src |-> dirnames[1],
                         dst |-> FinalDirname(sdk_type)])
            /\ tmp_extract' =
                 Renamed(tmp_extract, dirnames[1], FinalDirname(sdk_type))
            /\ pc' = "move"
            /\ result' = result
       ELSE /\ pc' = "Raised"
            /\ result' = Raised(LocalError("RuntimeError", dirnames))
            /\ UNCHANGED <<fs_log, tmp_extract>>
    /\ UNCHANGED <<method, log, clientVars, lambdaVars, threadVars, logVars, resourceVars,
                   sdk_type, dirnames, output_dir, output_before>>

\* shutil.move(full_renamed_name, output_dir); return.  Into an existing
\* directory the source moves under its own name and must not be there yet;
\* to a path with nothing at it the source is renamed to that path.
Move ==
    /\ method = "download_sdk"
    /\ pc = "move"
    /\ fs_log' =
         Append(fs_log,
                [op |-> "move", src |-> FinalDirname(sdk_type),
                 dst |-> "output_dir"])
    /\ IF output_dir.exists /\ FinalDirname(sdk_type) \in output_dir.entries
       THEN /\ pc' = "Raised"
            /\ result' = Raised(LocalError("shutil.Error", FinalDirname(sdk_type)))
            /\ UNCHANGED <<tmp_extract, output_dir>>
       ELSE /\ pc' = "Returned"
            /\ result' = Returned("None")
            /\ tmp_extract' = {}
            /\ output_dir' =
                 IF output_dir.exists
                 THEN Directory(output_dir.entries
                                \cup {FinalDirname(sdk_type)})
                 ELSE Directory(SdkFiles)
    /\ UNCHANGED <<method, log, clientVars, lambdaVars, threadVars, logVars, resourceVars,
                   sdk_type, dirnames, output_before>>

\* The caller has the outcome, the locals of the call are gone, and the
\* caller may call again.
SdkReturn ==
    /\ method = "download_sdk"
    /\ pc \in {"Returned", "Raised"}
    /\ pc' = "idle"
    /\ log' = <<>>
    /\ result' = NoResult
    /\ resource_name' = "none"
    /\ sdk_type' = "none"
    /\ tmp_extract' = {}
    /\ dirnames' = <<>>
    /\ output_before' = NoDirectory
    /\ fs_log' = <<>>
    /\ UNCHANGED <<method, clientVars, lambdaVars, threadVars, logVars, inline_policies, deleted,
                   output_dir>>

\* output_dir names nothing, an empty directory, or a directory that already
\* holds an SDK.
SdkInit ==
    /\ ClientInit
    /\ function_tags = EmptyDict
    /\ function_policy = None
    /\ initial_policy = None
    /\ output_dir \in {NoDirectory, Directory({}),
                       Directory({FinalDirname("javascript")})}

SdkNext ==
    \/ DownloadSdk
    \/ ExtractAll
    \/ RenameOrRaise
    \/ Move
    \/ SdkReturn

SdkSpec == SdkInit /\ [][SdkNext]_vars

Downloading == method = "download_sdk" /\ pc # "idle"

\* The top-level entries of the archive the current call downloaded.
Downloaded == log[1].outcome.value.body

\* The archive is exactly one top-level directory.
OneDirectory(entries) ==
    Cardinality(entries) = 1 /\ \A e \in entries : e.isdir

------------------------------------------------------------------------------
------------------------------------------------------------------------------
(* iter_log_events, _convert_to_datetime *)

MaxPages == 2
MaxEvents == 2

LogGroupNames == {"/aws/lambda/function1"}

\* Events as filter_log_events gives them: times in milliseconds.
RawEvents ==
    {[message |-> "START", ingestionTime |-> 2001, timestamp |-> 1500],
     [message |-> "END", ingestionTime |-> 61000, timestamp |-> 60999]}

EventLists == SeqsUpTo(RawEvents, MaxEvents)

LogsFailureClasses == {"ResourceNotFoundException", "ServiceUnavailableException"}

ConvertKeepingMilliseconds(integer_timestamp) ==
    [seconds |-> integer_timestamp, microsecond |-> 0]

\* datetime.datetime.fromtimestamp(integer_timestamp / 1000.0): the point in
\* time that many milliseconds after the epoch.
ConvertToDatetime(integer_timestamp) ==
    [seconds |-> integer_timestamp \div 1000,
     microsecond |-> (integer_timestamp % 1000) * 1000]

\* The two assignments to the event in the loop body.
Converted(event) ==
    [event EXCEPT !.ingestionTime = ConvertToDatetime(@),
                  !.timestamp = ConvertToDatetime(@)]

\* Where the generator is after i events of the current page: at the next
\* event, at the next page, or at its end.
AfterEvent(i, page_events, has_more) ==
    IF i < Len(page_events) THEN "yield"
    ELSE IF has_more THEN "paginate" ELSE "Returned"

\* iter_log_events(log_group_name): a generator; nothing of its body runs
\* before the consumer asks for the first event.
IterLogEvents ==
    /\ pc = "idle"
    /\ method' = "iter_log_events"
    /\ \E g \in LogGroupNames : resource_name' = g
    /\ log' = <<>>
    /\ result' = NoResult
    /\ pc' = "start"
    /\ UNCHANGED <<clientVars, lambdaVars, threadVars, inline_policies, deleted, sdkVars,
                   logVars>>

\* logs = self._client('logs'); paginator = logs.get_paginator(...).
GetPaginator ==
    /\ method = "iter_log_events"
    /\ pc = "start"
    /\ UseClient("logs")
    /\ pc' = "paginate"
    /\ UNCHANGED <<method, log, result, lambdaVars, threadVars, resourceVars, sdkVars,
                   logVars>>

\* for page in paginator.paginate(...): the paginator issues the next
\* filter_log_events request; events = page['events'].
NextPage ==
    /\ method = "iter_log_events"
    /\ pc = "paginate"
    /\ Len(pages) < MaxPages
    /\ LET request == [logGroupName |-> resource_name, interleaved |-> TRUE,
                       page |-> Len(pages) + 1]
           Answer(outcome, page_events, has_more) ==
             /\ Issue("filter_log_events", request, outcome,
                      AfterEvent(0, page_events, has_more), "None")
             /\ pages' = IF outcome.ok THEN Append(pages, page_events)
                         ELSE pages
             /\ events' = page_events
             /\ more' = has_more
             /\ event_index' = 0
       IN \/ \E l \in EventLists, t \in BOOLEAN :
               Answer(Ok([events |-> l,
                          nextToken |-> t /\ Len(pages) + 1 < MaxPages]),
                      l, t /\ Len(pages) + 1 < MaxPages)
          \/ \E c \in LogsFailureClasses : Answer(Fail(c), events, more)
    /\ UNCHANGED <<method, clientVars, lambdaVars, threadVars, resourceVars, sdkVars,
                   yielded>>

\* The loop body for one event: both times are replaced in the event, which
\* is then yielded.
YieldEvent ==
    /\ method = "iter_log_events"
    /\ pc = "yield"
    /\ events' = [events EXCEPT ![event_index + 1] = Converted(@)]
    /\ yielded' = Append(yielded, events'[event_index + 1])
    /\ event_index' = event_index + 1
    /\ pc' = AfterEvent(event_index + 1, events, more)
    /\ result' = IF pc' = "Returned" THEN Returned("StopIteration") ELSE result
    /\ UNCHANGED <<method, log, clientVars, lambdaVars, threadVars, resourceVars, sdkVars,
                   pages, more>>

\* The generator has ended or raised, or the consumer drops it at a yield;
\* its locals are gone and the caller may call again.
LogReturn ==
    /\ method = "iter_log_events"
    /\ pc \in {"Returned", "Raised", "yield"}
    /\ pc' = "idle"
    /\ log' = <<>>
    /\ result' = NoResult
    /\ resource_name' = "none"
    /\ pages' = <<>>
    /\ more' = FALSE
    /\ events' = <<>>
    /\ event_index' = 0
    /\ yielded' = <<>>
    /\ UNCHANGED <<method, clientVars, lambdaVars, threadVars, inline_policies, deleted,
                   sdkVars>>

LogInit ==
    /\ ClientInit
    /\ function_tags = EmptyDict
    /\ function_policy = None
    /\ initial_policy = None
    /\ output_dir = NoDirectory

LogNext ==
    \/ IterLogEvents
    \/ GetPaginator
    \/ NextPage
    \/ YieldEvent
    \/ LogReturn

LogSpec == LogInit /\ [][LogNext]_vars

Iterating == method = "iter_log_events" /\ pc # "idle"

RECURSIVE Flattened(_)
\* The events of the pages, in the order the provider gave them.
Flattened(ps) ==
    IF ps = <<>> THEN <<>> ELSE ps[1] \o Flattened(Tail(ps))

\* The event the consumer is to get for a provider's event.
Decoded(raw) ==
    [message |-> raw.message,
     ingestionTime |->
         [seconds |-> raw.ingestionTime \div 1000,
          microsecond |-> 1000 * (raw.ingestionTime % 1000)],
     timestamp |->
         [seconds |-> raw.timestamp \div 1000,
          microsecond |-> 1000 * (raw.timestamp % 1000)]]

------------------------------------------------------------------------------
\* C19: the events iter_log_events has yielded are the events of the pages
\* the paginator has given, in the provider's order, each once and none left
\* out up to the event the generator is at; each yielded event has its
\* ingestionTime and timestamp replaced by the decoded time and its other
\* fields as the provider gave them; when the generator ends, or asks for the
\* next page, every event of every page given so far has been yielded.
C19_Events ==
    Iterating =>
        LET given == Flattened(pages)
        IN /\ Len(yielded) <= Len(given)
           /\ \A i \in 1..Len(yielded) : yielded[i] = Decoded(given[i])
           /\ pc = "yield" =>
                Len(yielded) = Len(given) - Len(events) + event_index
           /\ pc \in {"paginate", "Returned"} => Len(yielded) = Len(given)
           /\ pc = "Returned" => ~more

C19_Witness ==
    /\ Iterating /\ pc = "Returned"
    /\ Len(pages) = 2
    /\ Len(pages[1]) = 2 /\ Len(pages[2]) = 1
    /\ pages[1][1] # pages[1][2]
    /\ Len(yielded) = 3
    /\ yielded[1].timestamp = [seconds |-> 1, microsecond |-> 500000]

------------------------------------------------------------------------------
(* The methods without try/except: get_function_configuration,
   delete_role_policy, put_role_policy, create_role, get_rest_api_id,
   import_rest_api, update_api_from_swagger, deploy_rest_api,
   get_sdk_download_stream, region_name *)

\* The methods that ask for one client, issue one remote call and return
\* what they make of its response: method, service and remote operation.
PlainMethods ==
    {<<"get_function_configuration", "lambda", "get_function_configuration">>,
     <<"delete_role_policy", "iam", "delete_role_policy">>,
     <<"put_role_policy", "iam", "put_role_policy">>,
     <<"get_rest_api_id", "apigateway", "get_rest_apis">>,
     <<"import_rest_api", "apigateway", "import_rest_api">>,
     <<"update_api_from_swagger", "apigateway", "put_rest_api">>,
     <<"deploy_rest_api", "apigateway", "create_deployment">>,
     <<"get_sdk_download_stream", "apigateway", "get_sdk">>}

FailureClassesOf(service_name) ==
    IF service_name = "lambda" THEN LambdaFailureClasses
    ELSE IF service_name = "iam" THEN IamFailureClasses
    ELSE ApigatewayFailureClasses

PlainResultSwallowing(outcome) == Returned("response")

\* No try/except around the call: its failure leaves the method.
PlainResult(outcome) ==
    IF outcome.ok
    THEN Returned("response")
    ELSE Raised(Failure(outcome.value, 1))

Plain ==
    \E m \in PlainMethods :
        LET Answer(outcome) ==
              OneCall(m[1], m[2], "name", m[3], [Name |-> "name"], outcome,
                      PlainResult(outcome))
        IN \/ Answer(Ok("response"))
           \/ \E c \in FailureClassesOf(m[2]) : Answer(Fail(c))

\* create_role(name, trust_policy, policy): client = self._client('iam');
\* response = client.create_role(...); role_arn = response['Role']['Arn'].
CreateRole ==
    /\ pc = "idle"
    /\ method' = "create_role"
    /\ \E n \in RoleNames : resource_name' = n
    /\ UseClient("iam")
    /\ LET request == [RoleName |-> resource_name']
           Answer(outcome) ==
             Issue("create_role", request, outcome, "put_role_policy", "None")
       IN \/ Answer(Ok([Role |-> [Arn |-> <<"arn:role", resource_name'>>]]))
          \/ \E c \in IamFailureClasses : Answer(Fail(c))
    /\ UNCHANGED <<lambdaVars, threadVars, inline_policies, deleted, sdkVars, logVars>>

\* self.put_role_policy(role_name=name, policy_name=name, ...), which asks
\* self._client('iam') again; return role_arn.
PutRolePolicy ==
    /\ method = "create_role"
    /\ pc = "put_role_policy"
    /\ UseClient("iam")
    /\ LET request == [RoleName |-> resource_name,
                       PolicyName |-> resource_name]
           Answer(outcome) ==
             Issue("put_role_policy", request, outcome, "Returned",
                   log[1].outcome.value.Role.Arn)
       IN \/ Answer(Ok("put"))
          \/ \E c \in IamFailureClasses : Answer(Fail(c))
    /\ UNCHANGED <<method, lambdaVars, threadVars, resourceVars, sdkVars, logVars>>

\* The property region_name: self._client('apigateway').meta.region_name.
RegionName ==
    /\ pc = "idle"
    /\ method' = "region_name"
    /\ resource_name' = "none"
    /\ UseClient("apigateway")
    /\ log' = <<>>
    /\ result' = Returned("us-west-2")
    /\ pc' = "Returned"
    /\ UNCHANGED <<lambdaVars, threadVars, inline_policies, deleted, sdkVars, logVars>>

PlainMethodNames == {m[1] : m \in PlainMethods} \cup {"create_role", "region_name"}

\* The caller has the outcome, the locals of the call are gone, and the
\* caller may call again.
PlainReturn ==
    /\ method \in PlainMethodNames
    /\ pc \in {"Returned", "Raised"}
    /\ pc' = "idle"
    /\ log' = <<>>
    /\ result' = NoResult
    /\ resource_name' = "none"
    /\ UNCHANGED <<method, clientVars, lambdaVars, threadVars, inline_policies, deleted,
                   sdkVars, logVars>>

PlainNext ==
    \/ Plain
    \/ CreateRole
    \/ PutRolePolicy
    \/ RegionName
    \/ PlainReturn

------------------------------------------------------------------------------
(* TypedAWSClient: every method, called one after the other *)

\* One client on which the caller calls any method after any other.  The
\* methods with many arguments are called with few of them: update_function
\* with a timeout or nothing and without tags, the permission grant for one
\* rest api, delete_role for a role with at most one inline policy,
\* download_sdk for the javascript SDK of an archive with at most one entry,
\* iter_log_events over one page of at most one event.
ClientNext ==
    \/ CreateNext
    \/ /\ UpdateFunction
       /\ params' \in {NoParams, [NoParams EXCEPT !.timeout = Some(60)]}
    \/ UpdateFunctionCode
    \/ UpdateFunctionConfiguration
    \/ UpdateReturn
    \/ /\ AddPermissionForApigatewayIfNeeded
       /\ grant' = [rest_api_id |-> "api1", random_id |-> "r1"]
    \/ GetFunctionPolicy
    \/ AddPermissionForApigateway
    \/ GrantReturn
    \/ DeleteRole
    \/ ListRolePolicies /\ Len(inline_policies') <= 1
    \/ DeleteRolePolicy
    \/ DeleteRoleOfName
    \/ DeleteRoleReturn
    \/ ResourceNext
    \/ PlainNext
    \/ DownloadSdk /\ sdk_type' = "javascript"
    \/ ExtractAll /\ Cardinality(tmp_extract') <= 1
    \/ RenameOrRaise
    \/ Move
    \/ SdkReturn
    \/ IterLogEvents
    \/ GetPaginator
    \/ NextPage /\ Len(events') <= 1 /\ ~more'
    \/ YieldEvent
    \/ LogReturn

ClientSpec == LogInit /\ [][ClientNext]_vars

\* The service whose client a method asks for.
ServiceOf(m) ==
    IF m \in {"create_function", "update_function", "delete_function",
              "lambda_function_exists", "get_function_configuration",
              "add_permission_for_apigateway_if_needed"}
    THEN "lambda"
    ELSE IF m \in {"get_role_arn_for_name", "delete_role", "create_role",
                   "delete_role_policy", "put_role_policy"}
    THEN "iam"
    ELSE IF m = "iter_log_events" THEN "logs" ELSE "apigateway"

\* The current method has asked for its client.
HasClient == pc \notin {"idle", "start"}

------------------------------------------------------------------------------
\* C15: on one client used by one caller, session.create_client has been
\* called at most once for each service name, the cache holds exactly the
\* handles made, and a method that has asked for its client has the handle
\* stored for its service; in every step the entries of the cache stay in the
\* cache, and a handle is made only for a name that is not in the cache, is
\* stored and is the one returned.
C15_CacheState ==
    /\ \A n \in ServiceNames : created[n] <= 1
    /\ client_cache = {Handle(n, 1) : n \in {m \in ServiceNames : created[m] = 1}}
    /\ HasClient =>
         /\ client \in client_cache
         /\ client.name = ServiceOf(method)

C15_CacheStep ==
    /\ \A e \in client_cache : e \in client_cache'
    /\ \A n \in ServiceNames :
         /\ created'[n] >= created[n]
         /\ created'[n] # created[n] =>
              /\ ~Cached(client_cache, n)
              /\ client' = Handle(n, created'[n])
              /\ client' \in client_cache'
    /\ client' # client =>
         /\ client' \in client_cache'
         /\ Cached(client_cache, client'.name) => client' \in client_cache

C15_Cache == [](C15_CacheState) /\ [][C15_CacheStep]_vars

C15_Witness ==
    /\ method = "add_permission_for_apigateway_if_needed" /\ pc # "idle"
    /\ calls_made = 2
    /\ Cardinality(client_cache) = 4
    /\ client = Handle("lambda", 1)

------------------------------------------------------------------------------
(* _client called by several threads *)

\* The statements of _client are not guarded by a lock: between any two of
\* the membership test, create_client, the store and the read of the
\* returned entry, another thread may run.

\* A thread calls self._client(service_name).
EnterClient(t) ==
    /\ threads[t].pc = "out"
    /\ \E n \in {"lambda", "iam"} :
         threads' = [threads EXCEPT ![t] =
                        [pc |-> "test", service_name |-> n,
                         made |-> NoClient, got |-> NoClient]]
    /\ UNCHANGED <<client_cache, created>>

\* if service_name not in self._client_cache.
TestMembership(t) ==
    /\ threads[t].pc = "test"
    /\ threads' = [threads EXCEPT ![t].pc =
                      IF Cached(client_cache, threads[t].service_name)
                      THEN "return" ELSE "create_client"]
    /\ UNCHANGED <<client_cache, created>>

\* self._session.create_client(service_name).
CreateClient(t) ==
    /\ threads[t].pc = "create_client"
    /\ created' = [created EXCEPT ![threads[t].service_name] = @ + 1]
    /\ threads' = [threads EXCEPT
                      ![t].pc = "store",
                      ![t].made = Handle(threads[t].service_name,
                                         created'[threads[t].service_name])]
    /\ UNCHANGED client_cache

\* self._client_cache[service_name] = <the client made>.
StoreClient(t) ==
    /\ threads[t].pc = "store"
    /\ client_cache' =
         {e \in client_cache : e.name # threads[t].service_name}
         \cup {threads[t].made}
    /\ threads' = [threads EXCEPT ![t].pc = "return"]
    /\ UNCHANGED created

\* return self._client_cache[service_name].
ReturnClient(t) ==
    /\ threads[t].pc = "return"
    /\ threads' = [threads EXCEPT
                      ![t].pc = "out",
                      ![t].got = ClientHandle(client_cache,
                                              threads[t].service_name)]
    /\ UNCHANGED <<client_cache, created>>

ConcurrentNext ==
    /\ \E t \in Threads :
         \/ EnterClient(t)
         \/ TestMembership(t)
         \/ CreateClient(t)
         \/ StoreClient(t)
         \/ ReturnClient(t)
    /\ UNCHANGED <<method, pc, log, result, client, lambdaVars, resourceVars,
                   sdkVars, logVars>>

ConcurrentSpec == LogInit /\ [][ConcurrentNext]_vars

------------------------------------------------------------------------------
\* C16: when several callers are inside _client at the same time,
\* create_client has been called at most once for each service name, and any
\* two callers that were given a handle for the same name were given the same
\* handle.
C16_ConstructedOnce ==
    /\ \A n \in ServiceNames : created[n] <= 1
    /\ \A t, u \in Threads :
         (/\ threads[t].got # NoClient
          /\ threads[u].got # NoClient
          /\ threads[t].service_name = threads[u].service_name)
         => threads[t].got = threads[u].got

------------------------------------------------------------------------------
\* The current method has returned or raised.
Terminal == pc \in {"Success", "Returned", "Raised"}

FailedCalls == {i \in 1..Len(log) : ~log[i].outcome.ok}

\* The method raised the very failure of its i-th call.
SameFailure(i) == result = Raised(Failure(log[i].outcome.value, i))

\* An existence check answers a not-found failure with False.
NotFoundAsFalse(i) ==
    /\ method \in {"lambda_function_exists", "rest_api_exists"}
    /\ log[i].outcome.value = NotFoundClass

\* A delete turns a not-found failure into ResourceDoesNotExistError.
NotFoundAsDomainError(i) ==
    /\ method \in {"delete_function", "delete_rest_api"}
    /\ log[i].outcome.value = NotFoundClass

\* The propagation policy with two translations only: not-found gives False
\* in the existence checks and ResourceDoesNotExistError in the deletes, every
\* other failed call's failure is the one the method raises, and no method
\* returns normally after a failed call.
C17_OnlyTwoTranslations ==
    Terminal =>
        \A i \in FailedCalls :
            IF NotFoundAsFalse(i)
            THEN result.kind = "return" /\ ~result.value
            ELSE IF NotFoundAsDomainError(i)
            THEN result =
                   Raised(LocalError("ResourceDoesNotExistError", resource_name))
            ELSE SameFailure(i)

\* C17: a remote failure is handled locally in five places: not-found gives
\* False in the existence checks; not-found gives ResourceDoesNotExistError in
\* the deletes; NoSuchEntityException gives ValueError in
\* get_role_arn_for_name; an InvalidParameterValueException of
\* create_function below the attempt ceiling is followed by a sleep and
\* another attempt; a ResourceNotFoundException of the policy fetch in
\* add_permission_for_apigateway_if_needed is followed by the add_permission
\* call.  Every other failed remote call, in every method, ends the method
\* with the very same failure raised, so the method does not return normally.
C17_Translations ==
    Terminal =>
        \A i \in FailedCalls :
            LET cls == log[i].outcome.value
            IN IF NotFoundAsFalse(i)
               THEN result.kind = "return" /\ ~result.value
               ELSE IF NotFoundAsDomainError(i)
               THEN result =
                      Raised(LocalError("ResourceDoesNotExistError",
                                        resource_name))
               ELSE IF /\ method = "get_role_arn_for_name"
                       /\ cls = "NoSuchEntityException"
               THEN result = Raised(LocalError("ValueError", resource_name))
               ELSE IF /\ method = "create_function"
                       /\ cls = "InvalidParameterValueException"
                       /\ Cardinality({j \in FailedCalls : j <= i})
                            < LAMBDA_CREATE_ATTEMPTS
               THEN /\ log[i + 1].api = "sleep"
                    /\ log[i + 2].api = "create_function"
               ELSE IF /\ method = "add_permission_for_apigateway_if_needed"
                       /\ log[i].api = "get_policy"
                       /\ cls = "ResourceNotFoundException"
               THEN /\ i = 1
                    /\ log[2].api = "add_permission"
                    /\ log[2].outcome.ok => result.kind = "return"
               ELSE /\ SameFailure(i)
                    /\ pc = "Raised"

C17_Witness ==
    /\ method = "get_role_arn_for_name" /\ pc = "Raised"
    /\ log[1].outcome = Fail("NoSuchEntityException")
    /\ result = Raised(LocalError("ValueError", resource_name))

------------------------------------------------------------------------------
\* The place of a remote call in the text of update_function and
\* _update_function_tags.
UpdateOrder(api) ==
    IF api = "update_function_code" THEN 1
    ELSE IF api = "update_function_configuration" THEN 2
    ELSE IF api = "list_tags" THEN 3
    ELSE IF api = "untag_resource" THEN 4
    ELSE IF api = "tag_resource" THEN 5
    ELSE 0

\* C21: the remote calls of one update_function call are, in this order and
\* each at most once, update_function_code first, then
\* update_function_configuration, list_tags, untag_resource and tag_resource;
\* a call that failed is the last call of the method, which raises that very
\* failure: after a failed code update there is no other call, and after a
\* failed untag_resource there is no tag_resource.
C21_UpdateOrder ==
    Updating =>
        /\ \A i \in 1..Len(log) : UpdateOrder(log[i].api) \in 1..5
        /\ Len(log) >= 1 => log[1].api = "update_function_code"
        /\ \A i, j \in 1..Len(log) :
             i < j => UpdateOrder(log[i].api) < UpdateOrder(log[j].api)
        /\ \A i \in 1..Len(log) :
             ~log[i].outcome.ok =>
                 /\ i = Len(log)
                 /\ pc = "Raised"
                 /\ result = Raised(Failure(log[i].outcome.value, i))
        /\ pc = "Raised" => Len(log) >= 1 /\ ~log[Len(log)].outcome.ok

C21_Witness ==
    /\ Updating /\ pc = "Raised"
    /\ ApiSequence(log) =
         <<"update_function_code", "update_function_configuration",
           "list_tags", "untag_resource">>
    /\ ~log[4].outcome.ok
    /\ DOMAIN TagsToAdd(Desired, remote_tags) # {}

====
